---- MODULE Spec2Model ----
(***************************************************************************)
(* Hero Health integration: the API client's token management and request *)
(* primitive (api.py) and the data update coordinator's refresh cycle     *)
(* (coordinator.py).                                                       *)
(*                                                                         *)
(* Tokens are numbered: the refresh token the client is constructed with   *)
(* is InitialRefresh, the token endpoint hands out the next number with    *)
(* every token it issues, and 0 stands for None / "" (a falsy value).      *)
(* Time is time.monotonic() in seconds.                                    *)
(***************************************************************************)
EXTENDS Integers, Sequences, FiniteSets, TLC

VARIABLES
    access_token,       \* HeroHealthApiClient._access_token (0 = None)
    refresh_token,      \* HeroHealthApiClient._refresh_token
    token_acquired_at,  \* HeroHealthApiClient._token_acquired_at
    now,                \* time.monotonic()
    ticks,              \* how often the clock has advanced
    issued,             \* token endpoint: the last token number handed out
    call,               \* the _request calls: position, message in flight, outcome
    cyc,                \* the coordinator's position in _async_update_data
    world,              \* which data set the cloud serves during this cycle
    fan,                \* _fetch_all_data: position in taken_slots (0 = not there)
    remaining_days,     \* local remaining_days of _fetch_all_data
    data,               \* DataUpdateCoordinator.data (the previous snapshot)
    entry_token,        \* config_entry.data[CONF_REFRESH_TOKEN]
    hook,               \* calls of async_update_entry in the current cycle
    outcome             \* how the cycle ended

vars == <<access_token, refresh_token, token_acquired_at, now, ticks, issued, call,
          cyc, world, fan, remaining_days, data, entry_token, hook, outcome>>

clientVars == <<access_token, refresh_token, token_acquired_at>>
coordVars == <<cyc, world, fan, remaining_days, data, entry_token, hook,
               outcome>>

----------------------------------------------------------------------------
(* Program constants *)

TOKEN_LIFETIME_SECONDS == 3000
ExpiryBuffer == 120
NumBatch == 5
DEFAULT_SCAN_INTERVAL == 300

(* Bounds of the model *)

MaxIssued == 3      \* tokens the token endpoint hands out
MaxTicks == 3       \* clock advances per behaviour

InitialRefresh == 1

Batch == 1..NumBatch
Slot == NumBatch + 1        \* the one sequential call: per-slot or stand-alone
Calls == 1..(NumBatch + 1)

----------------------------------------------------------------------------
(* JSON values and Python exceptions, tagged *)

JNull == [t |-> "null", v |-> 0]
JInt(n) == [t |-> "int", v |-> n]
JStr(s) == [t |-> "str", v |-> s]
JList(s) == [t |-> "list", v |-> s]
JDict(s) == [t |-> "dict", v |-> s]
KV(key, value) == [k |-> key, val |-> value]
Exc(kind) == [t |-> "exc", v |-> kind]
NoResult == [t |-> "none", v |-> 0]

AuthError == Exc("HeroHealthAuthError")
ApiError == Exc("HeroHealthApiError")
ConnError == Exc("HeroHealthConnectionError")

isException(r) == r.t = "exc"

TypeError == Exc("TypeError")

isDict(x) == x.t = "dict"
isList(x) == x.t = "list"
isInt(x) == x.t = "int"

(* dict.get(key, default): the value of the last pair with that key *)
RECURSIVE Lookup(_, _, _)
Lookup(pairs, key, default) ==
    IF pairs = <<>> THEN default
    ELSE IF pairs[Len(pairs)].k = key THEN pairs[Len(pairs)].val
    ELSE Lookup(SubSeq(pairs, 1, Len(pairs) - 1), key, default)

DictGet(d, key, default) == Lookup(d.v, key, default)

(* d[key] = value: in place when the key is there, else appended *)
DictSet(d, key, value) ==
    IF \E n \in 1..Len(d.v) : d.v[n].k = key
    THEN [d EXCEPT !.v = [n \in 1..Len(d.v) |->
                            IF d.v[n].k = key THEN KV(key, value) ELSE d.v[n]]]
    ELSE [d EXCEPT !.v = Append(d.v, KV(key, value))]

(* "for e in x": what Python iterates over; a str yields its characters,  *)
(* a dict its keys, None and numbers raise TypeError                       *)
Iterable(x) == x.t \in {"list", "dict", "str"}

Items(x) ==
    IF x.t = "list" THEN x.v
    ELSE IF x.t = "dict" THEN [n \in 1..Len(x.v) |-> JStr(x.v[n].k)]
    ELSE IF x.t = "str" /\ x.v # "" THEN <<JStr("c")>>
    ELSE <<>>

RECURSIVE Flat(_)
Flat(ss) == IF ss = <<>> THEN <<>> ELSE Head(ss) \o Flat(Tail(ss))

SelectDicts(s) == SelectSeq(s, isDict)

EmptyDict == JDict(<<>>)
EmptyList == JList(<<>>)

(* A dict keyed by slot number (pill_map, remaining_days): pairs in        *)
(* insertion order, a later value for the same key replacing the earlier.   *)
IMap(s) == [t |-> "imap", v |-> s]

MapPut(m, key, value) ==
    IF \E n \in 1..Len(m.v) : m.v[n].k = key
    THEN [m EXCEPT !.v = [n \in 1..Len(m.v) |->
                            IF m.v[n].k = key THEN KV(key, value) ELSE m.v[n]]]
    ELSE [m EXCEPT !.v = Append(m.v, KV(key, value))]

MapGet(m, key, default) == Lookup(m.v, key, default)

MapKeys(m) == {m.v[n].k : n \in 1..Len(m.v)}

----------------------------------------------------------------------------
(* Normalization steps of HeroHealthCoordinator._fetch_all_data *)

(* coordinator.py:82-86 *)
Defaulted_raw(r) == r

Defaulted_none(r) == IF isException(r) THEN JNull ELSE r

Defaulted(r) == IF isException(r) THEN EmptyDict ELSE r

(* coordinator.py:104-111: the doses of one time entry *)
TimeDoses_unstamped(time_entry) ==
    SelectDicts(Items(DictGet(time_entry, "doses", EmptyList)))

TimeDoses(time_entry) ==
    LET scheduled_dt == DictGet(time_entry, "scheduled_datetime", JNull)
        ds == SelectDicts(Items(DictGet(time_entry, "doses", EmptyList)))
    IN  [n \in 1..Len(ds) |-> DictSet(ds[n], "scheduled_datetime", scheduled_dt)]

(* coordinator.py:101-111: the doses of one date entry *)
DateDoses(date_entry) ==
    LET ts == SelectDicts(Items(DictGet(date_entry, "times", EmptyList)))
    IN  Flat([n \in 1..Len(ts) |-> TimeDoses(ts[n])])

(* coordinator.py:98-111 *)
flatten_doses(raw_doses) ==
    IF isDict(raw_doses)
    THEN LET ds == SelectDicts(Items(DictGet(raw_doses, "dates", EmptyList)))
         IN  JList(Flat([n \in 1..Len(ds) |-> DateDoses(ds[n])]))
    ELSE EmptyList

(* coordinator.py:113-120 *)
flatten_events(raw_events) ==
    IF isDict(raw_events)
    THEN JList(Flat([n \in 1..Len(raw_events.v) |->
                        IF isList(raw_events.v[n].val)
                        THEN SelectDicts(raw_events.v[n].val.v)
                        ELSE <<>>]))
    ELSE EmptyList

(* coordinator.py:122-124 *)
normalize_device_config(device_config) ==
    IF isDict(device_config) THEN device_config ELSE EmptyDict

(* coordinator.py:126-130 *)
RECURSIVE PutPills(_, _)
PutPills(m, pills) ==
    IF pills = <<>> THEN m
    ELSE LET pill == Head(pills)
         IN  IF isDict(pill) /\ DictGet(pill, "slot", JNull) # JNull
             THEN PutPills(MapPut(m, DictGet(pill, "slot", JNull), pill), Tail(pills))
             ELSE PutPills(m, Tail(pills))

build_pill_map(device_config) ==
    PutPills(IMap(<<>>), Items(DictGet(device_config, "pills", EmptyList)))

(* coordinator.py:132-137 *)
slot_numbers(raw_taken_slots) ==
    IF isDict(raw_taken_slots) THEN DictGet(raw_taken_slots, "slots", EmptyList)
    ELSE IF isList(raw_taken_slots) THEN raw_taken_slots
    ELSE EmptyList

(* coordinator.py:139-149 *)
SlotRecord_unnamed(slot_num, pill_map) ==
    JDict(<<KV("slot_index", slot_num),
            KV("pill_name", JNull),
            KV("stored_in_hero", JNull)>>)

SlotRecord(slot_num, pill_map) ==
    LET pill_info == MapGet(pill_map, slot_num, EmptyDict)
    IN  JDict(<<KV("slot_index", slot_num),
                KV("pill_name", DictGet(pill_info, "name", JNull)),
                KV("stored_in_hero", DictGet(pill_info, "stored_in_hero", JNull))>>)

enrich_slots(numbers, pill_map) ==
    LET ns == SelectSeq(Items(numbers), isInt)
    IN  JList([n \in 1..Len(ns) |-> SlotRecord(ns[n], pill_map)])

(* coordinator.py:165-173 *)
Snapshot(doses, events, pills_by_schedule, device_config, taken_slots, remaining, pill_map) ==
    JDict(<<KV("doses", doses),
            KV("events", events),
            KV("pills_by_schedule", pills_by_schedule),
            KV("device_config", device_config),
            KV("taken_slots", taken_slots),
            KV("remaining_days", remaining),
            KV("pill_map", pill_map)>>)

(* coordinator.py:94-95: did every call of the gather fail with an Auth    *)
(* failure?                                                                 *)
all_auth_failed_any(results) ==
    Cardinality({i \in DOMAIN results : results[i] = AuthError}) > 0

all_auth_failed(results) ==
    Cardinality({i \in DOMAIN results : results[i] = AuthError}) = Len(results)

(* coordinator.py:98-149: the snapshot built from the gather's results and *)
(* the remaining-days mapping                                               *)
TakenSlots(results) ==
    enrich_slots(slot_numbers(Defaulted(results[5])),
                 build_pill_map(normalize_device_config(Defaulted(results[4]))))

BuildSnapshot(results, remaining) ==
    LET device_config == normalize_device_config(Defaulted(results[4]))
    IN  Snapshot(flatten_doses(Defaulted(results[1])),
                 flatten_events(Defaulted(results[2])),
                 Defaulted(results[3]),
                 device_config,
                 TakenSlots(results),
                 remaining,
                 build_pill_map(device_config))

(* coordinator.py:98-149: does the normalization raise TypeError? The      *)
(* "for" statements at lines 101, 104, 108, 128 and 141 iterate over what   *)
(* the payload holds under "dates", "times", "doses", "pills" and "slots",  *)
(* and None or a number cannot be iterated; line 130 uses the pill's slot   *)
(* as a dict key, and a list or a dict cannot be hashed.                    *)
times_raise(date_entry) ==
    LET times == DictGet(date_entry, "times", EmptyList)
    IN  \/ ~Iterable(times)
        \/ \E n \in 1..Len(Items(times)) :
                /\ isDict(Items(times)[n])
                /\ ~Iterable(DictGet(Items(times)[n], "doses", EmptyList))

normalization_raises(results) ==
    LET raw_doses == Defaulted(results[1])
        device_config == normalize_device_config(Defaulted(results[4]))
        raw_taken_slots == Defaulted(results[5])
        dates == IF isDict(raw_doses) THEN DictGet(raw_doses, "dates", EmptyList)
                 ELSE EmptyList
        pills == DictGet(device_config, "pills", EmptyList)
    IN  \/ ~Iterable(dates)
        \/ \E n \in 1..Len(Items(dates)) :
                isDict(Items(dates)[n]) /\ times_raise(Items(dates)[n])
        \/ ~Iterable(pills)
        \/ \E n \in 1..Len(Items(pills)) :
                /\ isDict(Items(pills)[n])
                /\ DictGet(Items(pills)[n], "slot", JNull).t \in {"list", "dict"}
        \/ /\ isDict(raw_taken_slots)
           /\ ~Iterable(DictGet(raw_taken_slots, "slots", EmptyList))

----------------------------------------------------------------------------
(* What the cloud serves: data set 1 to the first cycle of an installation, *)
(* data set 2 to a later one.                                               *)

DoseRec(name) == JDict(<<KV("pill", JStr(name)), KV("status", JStr("pending"))>>)

TimeRec(at, ds) == JDict(<<KV("scheduled_datetime", JStr(at)), KV("doses", JList(ds))>>)

DosesBody(w) ==
    JDict(<<KV("dates", JList(<<
        JDict(<<KV("times",
            IF w = 1
            THEN JList(<<TimeRec("08:00", <<DoseRec("A")>>)>>)
            ELSE JList(<<TimeRec("08:00", <<DoseRec("A"), DoseRec("B")>>),
                         TimeRec("20:00", <<DoseRec("A")>>)>>))>>)>>))>>)

EventsBody(w) ==
    JDict(<<KV("today", JList(<<JDict(<<KV("event_type", JStr("taken"))>>)>>)),
            KV("yesterday", IF w = 1 THEN EmptyList
                            ELSE JList(<<JDict(<<KV("event_type", JStr("missed"))>>)>>))>>)

SchedulesBody(w) == JDict(<<KV("schedules", JList(<<JInt(w)>>))>>)

ConfigBody(w) ==
    JDict(<<KV("model", JStr("Hero")),
            KV("pills", JList(<<JDict(<<KV("slot", JInt(5)), KV("name", JStr("X")),
                                         KV("stored_in_hero", JInt(1))>>)>>))>>)

SlotsBody(w) ==
    JDict(<<KV("slots", IF w = 1 THEN JList(<<JInt(2), JInt(5)>>)
                        ELSE JList(<<JInt(5)>>))>>)

RemainingBody(slot_index) == JDict(<<KV("exact_days", slot_index)>>)

----------------------------------------------------------------------------
(* One call of HeroHealthApiClient._request.                                *)
(* pc:   idle     not running                                               *)
(*       start    created by asyncio.gather, has not run yet                *)
(*       ens      the token exchange of _ensure_token is in flight          *)
(*       req      the first request is in flight                            *)
(*       frc      the forced token exchange after a 401 is in flight        *)
(*       rty      the retried request is in flight                          *)
(*       done     returned or raised: see result                            *)
(* ans:  the token endpoint's answer, until the client reads it             *)
(* sent_rt: the refresh token the exchange in flight carries                *)
(* bearer: the bearer token the request in flight carries (0 = no           *)
(*       Authorization header)                                              *)
(* arg:  slot_index of a get_pill_remaining_days call, else None            *)
(* result: the JSON body returned or the exception raised                   *)
(* What is recorded of an observed call only:                               *)
(* status: status of the last response to a request (0 = transport fault)   *)
(* xanswer: the last answer of the token endpoint that the call read        *)
(* via:  what ended the call: "request" or "exchange"                       *)
(* rejected: the bearer token of the request that was answered 401          *)
(* forced: "none", "sent", "ok" (answered 200 with an access_token) or      *)
(*       "failed"                                                           *)
(* nReq, nExch, nForced, n401: requests, token exchanges and forced         *)
(*       exchanges issued, 401 responses read                               *)

Fault == 0
Statuses == {200, 400, 401, 500}

NoAns == [status |-> -1, at |-> 0, rt |-> 0]

IdleCall ==
    [pc |-> "idle", ans |-> NoAns, sent_rt |-> 0, bearer |-> 0, arg |-> JNull,
     result |-> NoResult,
     status |-> -1, xanswer |-> NoAns, via |-> "", rejected |-> 0,
     forced |-> "none", nReq |-> 0, nExch |-> 0, nForced |-> 0, n401 |-> 0]

(* The sequential call is observed; of the five calls of the gather only   *)
(* the position, the message in flight and the result are kept.             *)
Observed(i) == i = Slot

Unobserved(c) ==
    [c EXCEPT !.status = -1, !.xanswer = NoAns, !.via = "", !.rejected = 0,
              !.forced = "none", !.nReq = 0, !.nExch = 0, !.nForced = 0,
              !.n401 = 0]

Rec(i, c) == IF Observed(i) THEN c ELSE Unobserved(c)

(* api.py:72-77 *)
token_is_expired_nobuffer ==
    \/ access_token = 0
    \/ token_acquired_at = 0
    \/ now - token_acquired_at >= TOKEN_LIFETIME_SECONDS

token_is_expired_strict ==
    \/ access_token = 0
    \/ token_acquired_at = 0
    \/ now - token_acquired_at > TOKEN_LIFETIME_SECONDS - ExpiryBuffer

token_is_expired ==
    \/ access_token = 0
    \/ token_acquired_at = 0
    \/ now - token_acquired_at >= TOKEN_LIFETIME_SECONDS - ExpiryBuffer

(* api.py:133-136: does _ensure_token exchange the token? *)
ensure_token_always == TRUE

ensure_token == access_token = 0 \/ token_is_expired

(* api.py:60-70: the bearer token of the Authorization header the request  *)
(* is sent with, 0 if none: the access token held when the request is built *)
get_headers_early == access_token

get_headers == access_token'

(* api.py:93-115, 123-128: what refresh_access_token raises on answer a *)
refresh_raises_401(a) ==
    IF a.status = Fault THEN ConnError
    ELSE IF a.status = 401 THEN AuthError
    ELSE IF a.status # 200 THEN ApiError
    ELSE IF a.at = 0 THEN AuthError
    ELSE NoResult

refresh_raises(a) ==
    IF a.status = Fault THEN ConnError
    ELSE IF a.status \in {400, 401} THEN AuthError
    ELSE IF a.status # 200 THEN ApiError
    ELSE IF a.at = 0 THEN AuthError
    ELSE NoResult

(* api.py:117-121: the assignments of refresh_access_token on a 200 answer *)
store_tokens_always(a) ==
    /\ access_token' = a.at
    /\ refresh_token' = a.rt
    /\ token_acquired_at' = now

store_tokens(a) ==
    /\ access_token' = a.at
    /\ refresh_token' = (IF a.rt # 0 THEN a.rt ELSE refresh_token)
    /\ token_acquired_at' = now

(* api.py:151-186: what _request raises on a response of status s to the   *)
(* first request (retry = FALSE; a 401 is not raised but retried) and to    *)
(* the retried one                                                          *)
request_raises_again(s, retry) ==
    IF s = Fault THEN ConnError
    ELSE IF s # 200 /\ s # 401 THEN ApiError
    ELSE NoResult

request_raises_4xx(s, retry) ==
    IF s = Fault THEN ConnError
    ELSE IF s \in {400, 401} /\ retry THEN AuthError
    ELSE IF s # 200 /\ s # 401 THEN ApiError
    ELSE NoResult

request_raises(s, retry) ==
    IF s = Fault THEN ConnError
    ELSE IF s = 401 /\ retry THEN AuthError
    ELSE IF s # 200 /\ s # 401 THEN ApiError
    ELSE NoResult

----------------------------------------------------------------------------
(* The cloud *)

(* Token endpoint (api.py:84-92): its answers when n tokens were handed out. *)
(* A 200 answer carries a new access_token or none and a new refresh_token   *)
(* or none.                                                                  *)
ExchAnswers(n) ==
    {[status |-> s, at |-> 0, rt |-> 0] : s \in Statuses \cup {Fault}}
    \cup (IF n < MaxIssued
          THEN {[status |-> 200, at |-> n + 1, rt |-> n + 1],
                [status |-> 200, at |-> n + 1, rt |-> 0],
                [status |-> 200, at |-> 0, rt |-> n + 1]}
          ELSE {})

(* The JSON body of a 200 response to call i. *)
Body(i, w, slot_index) ==
    IF i = 1 THEN DosesBody(w)
    ELSE IF i = 2 THEN EventsBody(w)
    ELSE IF i = 3 THEN SchedulesBody(w)
    ELSE IF i = 4 THEN ConfigBody(w)
    ELSE IF i = 5 THEN SlotsBody(w)
    ELSE RemainingBody(slot_index)

Payload(i) == Body(i, world, call[i].arg)

----------------------------------------------------------------------------
(* api.py:138-150: _request up to its first suspension. The token is        *)
(* exchanged first when _ensure_token finds none or an expired one, else    *)
(* the request goes out with the headers of _get_headers.                   *)
Begin(i, slot_index) ==
    /\ UNCHANGED clientVars
    /\ IF ensure_token
       THEN call' = [call EXCEPT ![i] = Rec(i,
                [IdleCall EXCEPT !.pc = "ens", !.arg = slot_index,
                                 !.sent_rt = refresh_token, !.nExch = 1])]
       ELSE call' = [call EXCEPT ![i] = Rec(i,
                [IdleCall EXCEPT !.pc = "req", !.arg = slot_index,
                                 !.bearer = get_headers, !.nReq = 1])]

(* The token endpoint answers the exchange of call i with a. *)
ServerExchange(i, a) ==
    /\ call[i].pc \in {"ens", "frc"}
    /\ call[i].ans = NoAns
    /\ a \in ExchAnswers(issued)
    /\ call' = [call EXCEPT ![i].ans = a]
    /\ issued' = (IF a.at # 0 \/ a.rt # 0 THEN issued + 1 ELSE issued)
    /\ UNCHANGED <<clientVars, now, ticks, coordVars>>

(* api.py:93-131 and the caller's continuation (api.py:142-150 after       *)
(* _ensure_token, api.py:153-157 after the forced exchange): call i reads   *)
(* the token endpoint's answer a.                                           *)
ReadExchange(i, a) ==
    LET e == refresh_raises(a)
        c == [call[i] EXCEPT
                !.ans = NoAns, !.sent_rt = 0, !.xanswer = a,
                !.forced = (IF call[i].pc = "frc"
                            THEN (IF a.status = 200 /\ a.at # 0 THEN "ok" ELSE "failed")
                            ELSE @)]
    IN  /\ IF a.status = 200
           THEN store_tokens(a)
           ELSE UNCHANGED clientVars
        /\ IF isException(e)
           THEN call' = [call EXCEPT ![i] = Rec(i,
                    [c EXCEPT !.pc = "done", !.via = "exchange", !.result = e])]
           ELSE call' = [call EXCEPT ![i] = Rec(i,
                    [c EXCEPT !.pc = (IF call[i].pc = "ens" THEN "req" ELSE "rty"),
                              !.bearer = get_headers,
                              !.nReq = @ + 1])]

RecvExchange(i) ==
    /\ call[i].pc \in {"ens", "frc"}
    /\ call[i].ans # NoAns
    /\ ReadExchange(i, call[i].ans)
    /\ UNCHANGED <<now, ticks, issued, coordVars>>

(* The same in one step: the token endpoint answers and call i reads the   *)
(* answer before any other exchange is answered.                            *)
Exchange(i, a) ==
    /\ call[i].pc \in {"ens", "frc"}
    /\ call[i].ans = NoAns
    /\ a \in ExchAnswers(issued)
    /\ issued' = (IF a.at # 0 \/ a.rt # 0 THEN issued + 1 ELSE issued)
    /\ ReadExchange(i, a)
    /\ UNCHANGED <<now, ticks, coordVars>>

(* api.py:151-188: call i reads the response to its request, of status s   *)
(* (Fault: aiohttp.ClientError).                                            *)
RecvResponse(i, s) ==
    /\ call[i].pc \in {"req", "rty"}
    /\ LET e == request_raises(s, call[i].pc = "rty")
           c == [call[i] EXCEPT !.status = s, !.bearer = 0,
                                !.n401 = (IF s = 401 THEN @ + 1 ELSE @)]
       IN  IF isException(e)
           THEN call' = [call EXCEPT ![i] = Rec(i,
                    [c EXCEPT !.pc = "done", !.via = "request", !.result = e])]
           ELSE IF s = 200
           THEN call' = [call EXCEPT ![i] = Rec(i,
                    [c EXCEPT !.pc = "done", !.via = "request",
                              !.result = Payload(i)])]
           ELSE call' = [call EXCEPT ![i] = Rec(i,
                    [c EXCEPT !.pc = "frc",
                              !.rejected = call[i].bearer,
                              !.sent_rt = refresh_token,
                              !.forced = "sent",
                              !.nExch = @ + 1,
                              !.nForced = @ + 1])]
    /\ UNCHANGED <<clientVars, now, ticks, issued, coordVars>>

(* time.monotonic() advances. *)
TickSteps == {1, TOKEN_LIFETIME_SECONDS - ExpiryBuffer - 1}

Tick(d) ==
    /\ ticks < MaxTicks
    /\ now' = now + d
    /\ ticks' = ticks + 1
    /\ UNCHANGED <<clientVars, issued, call, coordVars>>

----------------------------------------------------------------------------
(* The snapshot of a cycle in which every call succeeded, on data set w *)
FullSnapshot(w) ==
    LET results == [i \in Batch |-> Body(i, w, JNull)]
        slots == TakenSlots(results).v
        RECURSIVE Fill(_, _)
        Fill(m, k) ==
            IF k > Len(slots) THEN m
            ELSE LET n == DictGet(slots[k], "slot_index", JNull)
                 IN  Fill(MapPut(m, n, RemainingBody(n)), k + 1)
    IN  BuildSnapshot(results, Fill(IMap(<<>>), 1))

(* api.py:42-53 and coordinator.py:27-40: the client is constructed with   *)
(* the stored refresh token and no bearer token, and no cycle has run.      *)
InitFresh ==
    /\ access_token = 0
    /\ refresh_token = InitialRefresh
    /\ token_acquired_at = 0
    /\ now = 1
    /\ issued = InitialRefresh
    /\ world = 1
    /\ data = JNull
    /\ entry_token = InitialRefresh

(* The installation DEFAULT_SCAN_INTERVAL after a first cycle in which the *)
(* token was exchanged and rotated and every call succeeded.                *)
InitWarm ==
    /\ access_token = InitialRefresh + 1
    /\ refresh_token = InitialRefresh + 1
    /\ token_acquired_at = 1
    /\ now = 1 + DEFAULT_SCAN_INTERVAL
    /\ issued = InitialRefresh + 1
    /\ world = 2
    /\ data = FullSnapshot(1)
    /\ entry_token = InitialRefresh + 1

Init ==
    /\ InitFresh \/ InitWarm
    /\ ticks = 0
    /\ call = [i \in Calls |-> IdleCall]
    /\ cyc = "idle"
    /\ fan = 0
    /\ remaining_days = IMap(<<>>)
    /\ hook = <<>>
    /\ outcome = "none"

----------------------------------------------------------------------------
(* A single call of an endpoint method outside a cycle (api.py:192-252):   *)
(* the caller awaits it and takes its result.                               *)
CallStart ==
    /\ cyc = "idle"
    /\ call[Slot].pc = "idle"
    /\ Begin(Slot, JNull)
    /\ UNCHANGED <<now, ticks, issued, coordVars>>

CallReturn ==
    /\ cyc = "idle"
    /\ call[Slot].pc = "done"
    /\ call' = [call EXCEPT ![Slot] = IdleCall]
    /\ UNCHANGED <<clientVars, now, ticks, issued, coordVars>>

NextReq ==
    \/ CallStart
    \/ \E a \in ExchAnswers(issued) : ServerExchange(Slot, a)
    \/ RecvExchange(Slot)
    \/ \E s \in Statuses \cup {Fault} : RecvResponse(Slot, s)
    \/ CallReturn
    \/ \E d \in TickSteps : Tick(d)

SpecReq == Init /\ [][NextReq]_vars

----------------------------------------------------------------------------
(* The refresh cycle: HeroHealthCoordinator._async_update_data             *)
(* cyc:  idle    no cycle is running                                        *)
(*       gather  _fetch_all_data awaits asyncio.gather                      *)
(*       fanout  _fetch_all_data awaits get_pill_remaining_days             *)
(* outcome: none, running, snapshot (returned one), reauth                  *)
(*       (ConfigEntryAuthFailed), stale (returned self.data), update_failed *)
(*       (UpdateFailed), error (another exception left the cycle)           *)

Results == [i \in Batch |-> call[i].result]

(* "if self.data" *)
Truthy(x) == x # JNull /\ ~(x.t \in {"dict", "list"} /\ x.v = <<>>)

(* coordinator.py:42-48 *)
persist_refresh_token ==
    IF refresh_token # entry_token
    THEN /\ entry_token' = refresh_token
         /\ hook' = Append(hook, refresh_token)
    ELSE UNCHANGED <<entry_token, hook>>

(* coordinator.py:52-69: _fetch_all_data returned or raised ret *)
async_update_data_stale(ret) ==
    /\ cyc' = "idle"
    /\ fan' = 0
    /\ UNCHANGED <<world, remaining_days>>
    /\ IF ~isException(ret)
       THEN /\ persist_refresh_token
            /\ data' = ret
            /\ outcome' = "snapshot"
       ELSE /\ UNCHANGED <<entry_token, hook>>
            /\ IF Truthy(data)
               THEN data' = data /\ outcome' = "stale"
               ELSE data' = data /\ outcome' = "reauth"

async_update_data(ret) ==
    /\ cyc' = "idle"
    /\ fan' = 0
    /\ UNCHANGED <<world, remaining_days>>
    /\ IF ~isException(ret)
       THEN /\ persist_refresh_token
            /\ data' = ret
            /\ outcome' = "snapshot"
       ELSE /\ UNCHANGED <<entry_token, hook>>
            /\ IF ret = AuthError
               THEN data' = data /\ outcome' = "reauth"
               ELSE IF ret \in {ApiError, ConnError}
               THEN IF Truthy(data)
                    THEN data' = data /\ outcome' = "stale"
                    ELSE data' = data /\ outcome' = "update_failed"
               ELSE data' = data /\ outcome' = "error"

(* The host scheduler starts the cycle; asyncio.gather creates the five    *)
(* calls (coordinator.py:73-80). One cycle is followed from each initial    *)
(* state.                                                                   *)
StartCycle ==
    /\ cyc = "idle"
    /\ call[Slot].pc = "idle"
    /\ outcome = "none"
    /\ cyc' = "gather"
    /\ call' = [i \in Calls |-> IF i \in Batch
                                THEN [IdleCall EXCEPT !.pc = "start"]
                                ELSE IdleCall]
    /\ hook' = <<>>
    /\ remaining_days' = IMap(<<>>)
    /\ fan' = 0
    /\ outcome' = "running"
    /\ UNCHANGED <<clientVars, now, ticks, issued, world, data, entry_token>>

(* The event loop runs the five calls in the order they were created, each *)
(* up to its first suspension, before it handles any response.              *)
BatchStep(i) ==
    /\ call[i].pc = "start"
    /\ \A j \in Batch : j < i => call[j].pc # "start"
    /\ Begin(i, JNull)
    /\ UNCHANGED <<now, ticks, issued, coordVars>>

Dispatched == \A j \in Batch : call[j].pc # "start"

(* coordinator.py:73-80: "await asyncio.gather(...)" resumes when every one *)
(* of its five calls has returned or raised.                                *)
gather_returned_first == \E i \in Batch : call[i].pc = "done"

gather_returned == \A i \in Batch : call[i].pc = "done"

(* coordinator.py:155-158: does the exception r of a remaining-days call    *)
(* leave the try statement? "except HeroHealthApiError" catches the base    *)
(* class and its two subclasses.                                            *)
fanout_escapes_auth(r) == r = AuthError

fanout_escapes(r) == isException(r) /\ r \notin {AuthError, ApiError, ConnError}

(* coordinator.py:151-157: the call for the taken slot at position k *)
SlotIndex_first(k) == DictGet(TakenSlots(Results).v[1], "slot_index", JNull)

SlotIndex(k) == DictGet(TakenSlots(Results).v[k], "slot_index", JNull)

(* coordinator.py:82-163: the gather has returned: defaults, escalation,   *)
(* normalization, which may raise TypeError, and the first remaining-days  *)
(* call or, with no taken slot, the snapshot.                               *)
GatherDone ==
    /\ cyc = "gather"
    /\ gather_returned
    /\ IF all_auth_failed(Results)
       THEN /\ async_update_data(AuthError)
            /\ UNCHANGED <<clientVars, call>>
       ELSE IF normalization_raises(Results)
       THEN /\ async_update_data(TypeError)
            /\ UNCHANGED <<clientVars, call>>
       ELSE IF TakenSlots(Results).v = <<>>
       THEN /\ async_update_data(BuildSnapshot(Results, remaining_days))
            /\ UNCHANGED <<clientVars, call>>
       ELSE /\ cyc' = "fanout"
            /\ fan' = 1
            /\ Begin(Slot, SlotIndex(1))
            /\ UNCHANGED <<world, remaining_days, data, entry_token, hook,
                           outcome>>
    /\ UNCHANGED <<now, ticks, issued>>

(* coordinator.py:155-182: a remaining-days call has returned or raised;   *)
(* the next one starts or, after the last, the snapshot is returned.        *)
FanoutDone ==
    /\ cyc = "fanout"
    /\ call[Slot].pc = "done"
    /\ LET r == call[Slot].result
           rd == IF isException(r) THEN remaining_days
                 ELSE MapPut(remaining_days, SlotIndex(fan), r)
       IN  IF fanout_escapes(r)
           THEN /\ async_update_data(r)
                /\ call' = [call EXCEPT ![Slot] = IdleCall]
                /\ UNCHANGED clientVars
           ELSE IF fan < Len(TakenSlots(Results).v)
           THEN /\ fan' = fan + 1
                /\ remaining_days' = rd
                /\ Begin(Slot, SlotIndex(fan + 1))
                /\ UNCHANGED <<cyc, world, data, entry_token, hook, outcome>>
           ELSE /\ async_update_data(BuildSnapshot(Results, rd))
                /\ call' = [call EXCEPT ![Slot] = IdleCall]
                /\ UNCHANGED clientVars
    /\ UNCHANGED <<now, ticks, issued>>

(* The responses a cycle is run against: one status of each class. *)
CycleStatuses == {200, 401, 500, Fault}

CycleAnswers ==
    {a \in ExchAnswers(issued) : a.status \in {200, 400, 500, Fault} /\ (a.at = 0 => a.rt = 0)}

Next ==
    \/ StartCycle
    \/ \E i \in Batch : BatchStep(i)
    \/ \E i \in Calls : \E a \in CycleAnswers : Dispatched /\ Exchange(i, a)
    \/ \E i \in Calls : \E s \in CycleStatuses : Dispatched /\ RecvResponse(i, s)
    \/ GatherDone
    \/ FanoutDone

Spec == Init /\ [][Next]_vars

----------------------------------------------------------------------------
(* The normalization of _fetch_all_data on payloads of every shape: the     *)
(* gather has returned the five payloads, and the rest of the cycle runs.   *)

MaxPills == 2       \* entries of the device config's pill list
MaxSlots == 2       \* members of the slot-occupancy payload

SeqsUpTo(S, n) == UNION {[1..k -> S] : k \in 0..n}

Pill(slot, name) == JDict(<<KV("slot", slot), KV("name", JStr(name))>>)

(* Members of "pills": pills of slots 5, 2 and 5 again, a pill without a   *)
(* slot, and a member that is no mapping                                    *)
PillInputs ==
    {Pill(JInt(5), "X"), Pill(JInt(2), "Y"), Pill(JInt(5), "Z"),
     JDict(<<KV("name", JStr("W"))>>), JInt(7)}

ConfigInputs ==
    {JDict(<<KV("model", JStr("Hero")), KV("pills", JList(ps))>>) :
        ps \in SeqsUpTo(PillInputs, MaxPills)}
    \cup {JDict(<<KV("model", JStr("Hero")), KV("pills", JNull)>>),
          JDict(<<KV("model", JStr("Hero")), KV("pills", JStr("none"))>>),
          EmptyList, JNull}

(* Members of the slot-occupancy payload: two slot numbers and a string *)
SlotMembers == {JInt(2), JInt(5), JStr("s")}

(* The slot-occupancy payload: a bare list, a mapping with "slots", a      *)
(* mapping with "results"                                                   *)
SlotInputs ==
    UNION {{JList(ns), JDict(<<KV("slots", JList(ns))>>),
            JDict(<<KV("results", JList(ns))>>)} :
                ns \in SeqsUpTo(SlotMembers, MaxSlots)}
    \cup {JDict(<<KV("slots", JNull)>>), JDict(<<KV("slots", JInt(3))>>),
          JInt(3), JNull}

(* The doses payload: the nested dates/times/doses mapping, and a bare     *)
(* list of dose records                                                     *)
DoseInputs == {DosesBody(2), JList(<<DoseRec("A"), DoseRec("B")>>)}

(* Nested doses payloads with members that are no mappings, with two date  *)
(* entries, with a time entry without "scheduled_datetime" and with a dose  *)
(* that has a "scheduled_datetime" of its own                               *)
DatesBody(ds) == JDict(<<KV("dates", JList(ds))>>)

DateRec(ts) == JDict(<<KV("date", JStr("today")), KV("times", JList(ts))>>)

MixedDoses ==
    DatesBody(<<JInt(7),
                DateRec(<<JStr("x"),
                          TimeRec("08:00", <<DoseRec("A"), JInt(1), DoseRec("B")>>)>>),
                DateRec(<<TimeRec("20:00", <<DoseRec("C")>>)>>)>>)

UnstampedDoses ==
    DatesBody(<<DateRec(<<JDict(<<KV("doses", JList(<<DoseRec("A")>>))>>),
                          TimeRec("20:00",
                              <<JDict(<<KV("scheduled_datetime", JStr("never")),
                                        KV("pill", JStr("B"))>>)>>)>>)>>)

NestedDoseInputs == {MixedDoses, UnstampedDoses, DatesBody(<<>>), EmptyDict}

(* Doses payloads whose "dates", "times" or "doses" is null, a number or a *)
(* string, and payloads that are a number or null                           *)
OddDoseInputs ==
    {JDict(<<KV("dates", JNull)>>),
     JDict(<<KV("dates", JStr("soon"))>>),
     DatesBody(<<JDict(<<KV("times", JNull)>>)>>),
     DatesBody(<<DateRec(<<JDict(<<KV("doses", JInt(3))>>)>>)>>),
     JInt(3), JNull}

(* The payloads of the doses, device-config and taken-slots calls: the     *)
(* doses payload varies with the other two fixed, and the other two vary    *)
(* together.                                                                *)
NormInputs ==
    {<<d, ConfigBody(1), SlotsBody(1)>> :
        d \in DoseInputs \cup NestedDoseInputs \cup OddDoseInputs}
    \cup {<<DosesBody(2), c, t>> : c \in ConfigInputs, t \in SlotInputs}
    \cup {<<JList(<<DoseRec("A"), DoseRec("B")>>), c, t>> :
            c \in ConfigInputs, t \in SlotInputs}

(* coordinator.py:73-86: asyncio.gather has returned; the client holds a   *)
(* valid bearer token.                                                      *)
InitNorm ==
    /\ access_token = InitialRefresh + 1
    /\ refresh_token = InitialRefresh + 1
    /\ token_acquired_at = 1
    /\ now = 1 + DEFAULT_SCAN_INTERVAL
    /\ ticks = 0
    /\ issued = InitialRefresh + 1
    /\ world = 1
    /\ data = JNull
    /\ entry_token = InitialRefresh + 1
    /\ cyc = "gather"
    /\ fan = 0
    /\ remaining_days = IMap(<<>>)
    /\ hook = <<>>
    /\ outcome = "running"
    /\ \E in \in NormInputs :
         call = [i \in Calls |->
                    IF i \in Batch
                    THEN [IdleCall EXCEPT
                            !.pc = "done",
                            !.result = <<in[1], EventsBody(1), SchedulesBody(1),
                                         in[2], in[3]>>[i]]
                    ELSE IdleCall]

NormStatuses == {200, 500}

NextNorm ==
    \/ GatherDone
    \/ \E s \in NormStatuses : RecvResponse(Slot, s)
    \/ FanoutDone

SpecNorm == InitNorm /\ [][NextNorm]_vars

----------------------------------------------------------------------------
(* binary_sensor.py:63-68: HeroHealthDeviceOnlineSensor.is_on on the        *)
(* coordinator's data; JNull is None, the entity's unknown state.           *)
is_on(snapshot) ==
    IF snapshot = JNull THEN JNull
    ELSE DictGet(snapshot, "device_online", JNull)

----------------------------------------------------------------------------
(* A cycle against a cloud that rejects the credentials: the token          *)
(* endpoint answers every exchange 400 or 401, and every request is         *)
(* answered 401. Answers and reads of an exchange are separate steps, and    *)
(* time passes before the cycle, so that the bearer token of the warm       *)
(* installation is still valid or has expired when the cycle starts.        *)
DeadAnswers == {a \in ExchAnswers(issued) : a.status \in {400, 401}}

DeadStatuses == {401}

NextDead ==
    \/ \E d \in TickSteps : cyc = "idle" /\ outcome = "none" /\ Tick(d)
    \/ StartCycle
    \/ \E i \in Batch : BatchStep(i)
    \/ \E i \in Batch : \E a \in DeadAnswers : Dispatched /\ ServerExchange(i, a)
    \/ \E i \in Batch : Dispatched /\ RecvExchange(i)
    \/ \E i \in Batch : \E s \in DeadStatuses : Dispatched /\ RecvResponse(i, s)
    \/ GatherDone

(* Every message in flight is answered and every answer is read: aiohttp's *)
(* requests end with a response or an error, and the event loop runs every  *)
(* task that can run.                                                       *)
SpecDead == Init /\ [][NextDead]_vars /\ WF_vars(NextDead)

----------------------------------------------------------------------------
(* A cycle whose token exchanges are answered by the token endpoint and     *)
(* read by the client in separate steps, so that the answers of concurrent  *)
(* exchanges arrive in any order. The token endpoint issues a new token     *)
(* pair or fails; every request is answered 200.                            *)
RaceAnswers ==
    {a \in ExchAnswers(issued) :
        \/ a.status = 200 /\ a.at # 0 /\ a.rt # 0
        \/ a.status = 500}

RaceStatuses == {200}

NextRace ==
    \/ StartCycle
    \/ \E i \in Batch : BatchStep(i)
    \/ \E i \in Batch : \E a \in RaceAnswers : Dispatched /\ ServerExchange(i, a)
    \/ \E i \in Batch : Dispatched /\ RecvExchange(i)
    \/ \E i \in Calls : \E s \in RaceStatuses : Dispatched /\ RecvResponse(i, s)
    \/ GatherDone
    \/ FanoutDone

SpecRace == Init /\ [][NextRace]_vars

----------------------------------------------------------------------------
(* What the sensors read from the coordinator's data: dict.get with the     *)
(* reader's own default for a missing key.                                  *)

(* sensor.py:130, 159, 392, 419 *)
read_doses(snapshot) == DictGet(snapshot, "home_doses", EmptyList)

(* sensor.py:291, 318 *)
read_events(snapshot) == DictGet(snapshot, "home_events", EmptyList)

(* sensor.py:223, 255 *)
read_stats(snapshot) == DictGet(snapshot, "overall_stats", EmptyDict)

(* sensor.py:495, 518 *)
read_remaining(snapshot) == DictGet(snapshot, "remaining_days", EmptyDict)

(* sensor.py:41 *)
read_taken_slots(snapshot) == DictGet(snapshot, "taken_slots", EmptyList)

(* binary_sensor.py:75, sensor.py:81 *)
read_device_config(snapshot) == DictGet(snapshot, "device_config", EmptyDict)

(* The keys the sensors read (with binary_sensor.py:68) and the keys a     *)
(* snapshot has (coordinator.py:165-173)                                    *)
ReaderKeys ==
    {"home_doses", "home_events", "overall_stats", "device_online",
     "remaining_days", "taken_slots", "device_config"}

SnapshotKeys(snapshot) == {snapshot.v[n].k : n \in 1..Len(snapshot.v)}

----------------------------------------------------------------------------
(* The cycle when every message in flight is answered and every answer is  *)
(* read: aiohttp's requests end with a response or an error, and the event  *)
(* loop runs every task that can run. The token endpoint issues a new token *)
(* pair or rejects the refresh token; requests are answered 200 or 401.     *)
WorkAnswers ==
    {a \in ExchAnswers(issued) :
        \/ a.status = 200 /\ a.at # 0 /\ a.rt # 0
        \/ a.status = 400}

WorkStatuses == {200, 401}

NextWork ==
    \/ StartCycle
    \/ \E i \in Batch : BatchStep(i)
    \/ \E i \in Calls : \E a \in WorkAnswers : Dispatched /\ Exchange(i, a)
    \/ \E i \in Calls : \E s \in WorkStatuses : Dispatched /\ RecvResponse(i, s)
    \/ GatherDone
    \/ FanoutDone

(* A running cycle does not stay where it is for ever: it keeps taking the  *)
(* steps of NextWork until it has ended.                                    *)
SpecWork ==
    /\ Init
    /\ [][NextWork]_vars
    /\ ([]<>(outcome # "running") \/ []<><<NextWork>>_vars)

----------------------------------------------------------------------------
(* Properties *)

Obs == call[Slot]

CycleEnded == cyc = "idle" /\ outcome # "none"

Failed(i) == isException(call[i].result)

AllAuth == \A i \in Batch : call[i].result = AuthError

(* The installation had a snapshot, and which refresh token it had stored, *)
(* when the cycle started.                                                  *)
HadSnapshot == world = 2

StoredAtStart == IF world = 1 THEN InitialRefresh ELSE InitialRefresh + 1

Field(name) == DictGet(data, name, NoResult)

(* The step in which call i reads a 200 answer of the token endpoint that  *)
(* carries an access_token                                                  *)
Refreshed(i) ==
    /\ call[i].ans # NoAns
    /\ call'[i].ans = NoAns
    /\ call[i].ans.status = 200
    /\ call[i].ans.at # 0

(* C1 as stated: a call whose first response was 401 has made exactly one  *)
(* forced exchange and has issued the request exactly twice; after a        *)
(* second 401 it has raised Auth.                                           *)
C1_AsStated ==
    (Obs.pc = "done" /\ Obs.n401 >= 1) =>
        /\ Obs.nForced = 1
        /\ Obs.nReq = 2
        /\ (Obs.n401 = 2 => Obs.result = AuthError)

(* C1 amended: a 401 to the first request is followed by exactly one       *)
(* forced exchange; the request is issued again once when that exchange     *)
(* succeeds and not at all when it fails; a second 401 raises Auth, and no  *)
(* call issues a third request or a second forced exchange.                 *)
C1_BoundedRetry ==
    /\ Obs.nReq <= 2 /\ Obs.nForced <= 1 /\ Obs.nExch <= 2 /\ Obs.n401 <= 2
    /\ (Obs.n401 >= 1) <=> (Obs.nForced = 1)
    /\ (Obs.pc = "done" /\ Obs.n401 >= 1) =>
            Obs.nReq = (IF Obs.forced = "ok" THEN 2 ELSE 1)
    /\ (Obs.n401 = 2) =>
            (Obs.pc = "done" /\ Obs.result = AuthError /\ Obs.nReq = 2)

C1_Witness ==
    /\ Obs.pc = "done" /\ Obs.n401 = 2 /\ Obs.result = AuthError
    /\ Obs.nReq = 2 /\ Obs.nForced = 1

(* C2: the cycle raises the Auth failure exactly when all five calls of    *)
(* the gather failed with Auth; in every other case it returns a snapshot.  *)
C2_Escalation ==
    /\ cyc = "fanout" => ~AllAuth
    /\ CycleEnded =>
        /\ (outcome = "reauth") <=> AllAuth
        /\ ~AllAuth => (outcome = "snapshot" /\ isDict(data) /\ Field("doses") # NoResult)

C2_Witness ==
    /\ CycleEnded /\ outcome = "snapshot"
    /\ \A i \in Batch : Failed(i)
    /\ \E i \in Batch : call[i].result = AuthError
    /\ \E i \in Batch : call[i].result = ApiError

(* C3 as stated: with a previous snapshot, a cycle whose five calls all    *)
(* fail with ConnectionError ends with the previous snapshot as the data.   *)
C3_StaleFallback ==
    (CycleEnded /\ HadSnapshot /\ \A i \in Batch : call[i].result = ConnError) =>
        (outcome \in {"stale", "snapshot"} /\ data = FullSnapshot(1))

(* C4 as stated: a cycle that ends with a refresh token other than the one *)
(* stored when it started has called async_update_entry exactly once, with  *)
(* that token; one that ends with the stored token has not called it.       *)
C4_RotationPersisted ==
    CycleEnded =>
        IF refresh_token # StoredAtStart
        THEN hook = <<refresh_token>>
        ELSE hook = <<>>

(* C5: _token_is_expired is true with no bearer token, false right after   *)
(* every successful token exchange, true once more than the lifetime less   *)
(* 120 s have passed since, and it turns false by a successful exchange     *)
(* only.                                                                    *)
C5_ExpiryLifecycle ==
    [][ /\ access_token = 0 => token_is_expired
        /\ Refreshed(Slot) => ~token_is_expired'
        /\ (now' - token_acquired_at' > TOKEN_LIFETIME_SECONDS - ExpiryBuffer)
                => token_is_expired'
        /\ (token_is_expired /\ ~token_is_expired') => Refreshed(Slot) ]_vars

C5_Witness ==
    /\ Obs.xanswer.status = 200 /\ Obs.xanswer.at = access_token
    /\ access_token # 0
    /\ now - token_acquired_at = TOKEN_LIFETIME_SECONDS - ExpiryBuffer + 1
    /\ token_is_expired

(* C6: refresh_access_token raises Auth on 400 and 401, the base API error *)
(* on any other status but 200, the connection error on a transport fault,  *)
(* and Auth on a 200 answer without access_token.                           *)
C6_ExchangeFailures ==
    LET a == Obs.xanswer
        Raised(e) == Obs.pc = "done" /\ Obs.via = "exchange" /\ Obs.result = e
    IN  a # NoAns =>
            /\ a.status \in {400, 401} => Raised(AuthError)
            /\ a.status \notin {200, 400, 401, Fault} => Raised(ApiError)
            /\ a.status = Fault => Raised(ConnError)
            /\ (a.status = 200 /\ a.at = 0) => Raised(AuthError)

C6_Witness ==
    /\ Obs.xanswer.status = 400
    /\ Obs.pc = "done" /\ Obs.result = AuthError

(* C7: a successful token exchange stores the new bearer token and the     *)
(* time, and stores the answer's refresh token if it has one, else keeps    *)
(* the refresh token.                                                       *)
C7_StoreOnSuccess ==
    [][ Refreshed(Slot) =>
            /\ access_token' = call[Slot].ans.at
            /\ token_acquired_at' = now
            /\ refresh_token' = (IF call[Slot].ans.rt # 0 THEN call[Slot].ans.rt
                                 ELSE refresh_token) ]_vars

C7_Witness ==
    /\ Obs.xanswer.status = 200 /\ Obs.xanswer.at # 0 /\ Obs.xanswer.rt = 0
    /\ access_token = Obs.xanswer.at
    /\ refresh_token = InitialRefresh
    /\ token_acquired_at = now

(* C8: in the snapshot of a cycle that was not escalated, the field of     *)
(* every failed call of the gather is the empty default, and the field of   *)
(* every call that succeeded holds what its body holds.                     *)
SlotIndexes(ts) == [n \in 1..Len(ts.v) |-> DictGet(ts.v[n], "slot_index", JNull)]

C8_Defaults ==
    (CycleEnded /\ outcome = "snapshot") =>
        /\ Field("doses") = (IF Failed(1) THEN EmptyList
                             ELSE flatten_doses(Body(1, world, JNull)))
        /\ ~Failed(1) => Len(Field("doses").v) > 0
        /\ Field("events") = (IF Failed(2) THEN EmptyList
                              ELSE flatten_events(Body(2, world, JNull)))
        /\ ~Failed(2) => Len(Field("events").v) > 0
        /\ Field("pills_by_schedule") = (IF Failed(3) THEN EmptyDict
                                         ELSE Body(3, world, JNull))
        /\ Field("device_config") = (IF Failed(4) THEN EmptyDict
                                     ELSE Body(4, world, JNull))
        /\ Failed(5) => Field("taken_slots") = EmptyList
        /\ ~Failed(5) => SlotIndexes(Field("taken_slots"))
                            = DictGet(Body(5, world, JNull), "slots", JNull).v

C8_Witness ==
    /\ CycleEnded /\ outcome = "snapshot"
    /\ call[1].result = AuthError
    /\ call[2].result = ApiError
    /\ call[3].result = ConnError
    /\ ~Failed(4) /\ ~Failed(5)
    /\ Field("doses") = EmptyList
    /\ Len(Field("taken_slots").v) > 0

(* C9: _request raises the base API error on a final status other than 200 *)
(* and 401, the connection error on a transport fault, and Auth on nothing  *)
(* but a 401 to the retried request.                                        *)
C9_RequestFailures ==
    (Obs.pc = "done" /\ Obs.via = "request") =>
        /\ Obs.status \notin {200, 401, Fault} => Obs.result = ApiError
        /\ Obs.status = Fault => Obs.result = ConnError
        /\ Obs.result = ApiError => Obs.status \notin {200, 401, Fault}
        /\ Obs.result = ConnError => Obs.status = Fault
        /\ Obs.result = AuthError => (Obs.status = 401 /\ Obs.nReq = 2)

C9_Witness ==
    /\ Obs.pc = "done" /\ Obs.via = "request"
    /\ Obs.nReq = 2 /\ Obs.status = 400 /\ Obs.result = ApiError

(* C10: every request, first or retried, of every call goes out with the   *)
(* bearer token the client holds, which is present and not expired; a call  *)
(* that starts without a valid bearer token exchanges the token first, and  *)
(* issues no request when that exchange fails.                              *)
C10_BearerPresent ==
    [][ \A i \in Calls :
        /\ call'[i].pc \in {"req", "rty"} => call'[i].bearer # 0
        /\ (call'[i].pc \in {"req", "rty"} /\ call'[i].pc # call[i].pc) =>
                /\ call'[i].bearer = access_token'
                /\ ~token_is_expired'
        /\ (call[i].pc \in {"idle", "start"} /\ call'[i].pc \notin {"idle", "start"}) =>
                call'[i].pc = (IF access_token = 0 \/ token_is_expired
                               THEN "ens" ELSE "req")
        /\ (call[i].pc = "ens" /\ call'[i].pc # "ens") =>
                \/ call'[i].pc = "req" /\ access_token' # access_token
                \/ call'[i].pc = "done" /\ isException(call'[i].result) ]_vars

C10_Witness ==
    \E i, j \in Batch :
        /\ call[i].pc = "rty" /\ call[i].bearer # 0
        /\ call[j].pc = "req" /\ call[j].bearer # 0
        /\ call[i].bearer # call[j].bearer

(* C11: a remaining-days call that fails, with whatever HeroHealthApiError, *)
(* does not end the cycle with an error: the cycle goes on to the next slot *)
(* or returns the snapshot, the mapping gets no entry for that call's slot, *)
(* and a call that succeeds adds exactly the entry of its slot; the mapping *)
(* is empty when the fan-out starts.                                        *)
C11_FanoutIsolated ==
    /\ [](cyc = "gather" => remaining_days = IMap(<<>>))
    /\ [][ (cyc = "fanout" /\ call[Slot].pc = "done") =>
            LET r == call[Slot].result
                k == SlotIndex(fan)
                after == IF cyc' = "fanout" THEN remaining_days'
                         ELSE Field("remaining_days")'
            IN  /\ cyc' = "fanout" \/ outcome' = "snapshot"
                /\ isException(r) => MapKeys(after) = MapKeys(remaining_days)
                /\ ~isException(r) =>
                        /\ MapKeys(after) = MapKeys(remaining_days) \cup {k}
                        /\ MapGet(after, k, NoResult) = r ]_vars

C11_Witness ==
    /\ CycleEnded /\ outcome = "snapshot"
    /\ Len(Field("taken_slots").v) = 2
    /\ MapKeys(Field("remaining_days")) = {JInt(5)}

(* C12: a remaining-days call runs only after all five calls of the gather  *)
(* have returned or raised, and it is the call for the slot at the current  *)
(* position of the normalized taken-slot list.                              *)
C12_FanoutAfterBatch ==
    call[Slot].pc # "idle" =>
        /\ cyc = "fanout"
        /\ \A i \in Batch : call[i].pc = "done"
        /\ fan \in 1..Len(TakenSlots(Results).v)
        /\ call[Slot].arg = SlotIndex(fan)

C12_Witness ==
    /\ cyc = "fanout" /\ fan = 2
    /\ Obs.pc = "req" /\ Obs.arg = JInt(5)
    /\ call[1].result = ConnError /\ ~Failed(5)

(* The payloads the gather returned *)
HasSlot(p) == isDict(p) /\ DictGet(p, "slot", JNull) # JNull

GivenPills ==
    IF isDict(call[4].result)
    THEN SelectSeq(Items(DictGet(call[4].result, "pills", EmptyList)), HasSlot)
    ELSE <<>>

GivenSlots ==
    LET p == call[5].result
    IN  IF isList(p) THEN p.v
        ELSE IF isDict(p) THEN Items(DictGet(p, "slots", EmptyList))
        ELSE <<>>

(* The name of the config pill with slot number n, of the last one when    *)
(* there are several, None when there is none                               *)
NameOfSlot(n) ==
    LET idx == {j \in 1..Len(GivenPills) : DictGet(GivenPills[j], "slot", JNull) = n}
    IN  IF idx = {} THEN JNull
        ELSE DictGet(GivenPills[CHOOSE j \in idx : \A k \in idx : k <= j],
                     "name", JNull)

(* C13: the taken-slot records of the snapshot are, in order, one record   *)
(* for every integer of the taken-slot numbers, with the name of the config *)
(* pill of that slot number, and no name when no config pill has it.        *)
C13_SlotJoin ==
    (CycleEnded /\ outcome = "snapshot") =>
        LET ints == SelectSeq(GivenSlots, isInt)
            ts == Field("taken_slots").v
        IN  /\ Len(ts) = Len(ints)
            /\ \A n \in 1..Len(ts) :
                /\ DictGet(ts[n], "slot_index", NoResult) = ints[n]
                /\ DictGet(ts[n], "pill_name", NoResult) = NameOfSlot(ints[n])

C13_Witness ==
    /\ CycleEnded /\ outcome = "snapshot"
    /\ GivenSlots = <<JInt(2), JInt(5)>>
    /\ GivenPills = <<Pill(JInt(5), "X")>>
    /\ LET ts == Field("taken_slots").v
       IN  /\ Len(ts) = 2
           /\ DictGet(ts[1], "slot_index", NoResult) = JInt(2)
           /\ DictGet(ts[1], "pill_name", NoResult) = JNull
           /\ DictGet(ts[2], "slot_index", NoResult) = JInt(5)
           /\ DictGet(ts[2], "pill_name", NoResult) = JStr("X")

(* C14 as stated: when the doses payload is a bare list of dose records,   *)
(* the dose list of the snapshot has every one of them.                     *)
C14_FlatIdempotent ==
    (CycleEnded /\ outcome = "snapshot" /\ isList(call[1].result)) =>
        LET given == call[1].result.v
            doses == Field("doses").v
        IN  /\ Len(doses) = Len(given)
            /\ \A n \in 1..Len(given) :
                    DictGet(doses[n], "pill", NoResult) = DictGet(given[n], "pill", JNull)

(* C15 as stated: the taken slots of the snapshot are the integers of the  *)
(* payload itself when it is a list, of its "slots" field, or of its        *)
(* "results" field.                                                         *)
CanonicalSlots(p) ==
    SelectSeq(IF isList(p) THEN p.v
              ELSE IF ~isDict(p) THEN <<>>
              ELSE IF DictGet(p, "slots", NoResult) # NoResult
              THEN Items(DictGet(p, "slots", NoResult))
              ELSE Items(DictGet(p, "results", EmptyList)), isInt)

C15_SlotCoercion ==
    (CycleEnded /\ outcome = "snapshot") =>
        SlotIndexes(Field("taken_slots")) = CanonicalSlots(call[5].result)

C17_DeviceOnline ==
    (CycleEnded /\ outcome = "snapshot") =>
        /\ Field("device_online") # NoResult
        /\ is_on(data) # JNull

(* C18: a cycle in which all five calls failed with Auth ends with         *)
(* ConfigEntryAuthFailed, with or without a previous snapshot: it neither   *)
(* returns the previous snapshot nor raises UpdateFailed, and the data is   *)
(* what it was.                                                             *)
C18_AuthSurfaced ==
    (CycleEnded /\ AllAuth) =>
        /\ outcome = "reauth"
        /\ outcome \notin {"stale", "update_failed", "snapshot"}
        /\ data = (IF HadSnapshot THEN FullSnapshot(1) ELSE JNull)

C18_Witness ==
    /\ CycleEnded /\ AllAuth /\ HadSnapshot
    /\ Truthy(data)
    /\ outcome = "reauth"

(* C19 as stated: without a previous snapshot, a cycle whose five calls    *)
(* all fail with ConnectionError ends with UpdateFailed.                    *)
C19_FirstTimeFailure ==
    (CycleEnded /\ ~HadSnapshot /\ \A i \in Batch : call[i].result = ConnError) =>
        outcome = "update_failed"

(* C20: against a token endpoint that rejects every exchange and an API    *)
(* that answers every request 401, the cycle ends, in every interleaving,   *)
(* with ConfigEntryAuthFailed, and in no other way.                         *)
C20_DeadCredential ==
    /\ [](CycleEnded => outcome = "reauth")
    /\ <>(CycleEnded /\ outcome = "reauth")

C20_Witness ==
    /\ CycleEnded /\ outcome = "reauth"
    /\ access_token # 0 /\ token_is_expired
    /\ \A i \in Batch : call[i].pc = "done" /\ call[i].result = AuthError

(* C21 as stated: at no time are two token exchanges in flight, and no two *)
(* calls have submitted the same refresh token.                             *)
InFlight == {i \in Calls : call[i].pc \in {"ens", "frc"}}

C21_SingleExchange ==
    /\ Cardinality(InFlight) <= 1
    /\ \A i, j \in InFlight : i # j => call[i].sent_rt # call[j].sent_rt

(* C23 as stated: when a cycle has ended, in whatever way, the stored      *)
(* refresh token is the one the client holds.                               *)
C23_PersistedAfterCycle ==
    CycleEnded => entry_token = refresh_token

(* C22 as stated: when no token exchange of the cycle is in flight any     *)
(* more and the token endpoint has issued tokens during the cycle, the      *)
(* client holds the token pair the endpoint issued last.                    *)
C22_LastExchangeWins ==
    (cyc # "idle" /\ Dispatched /\ InFlight = {} /\ issued # StoredAtStart) =>
        /\ refresh_token = issued
        /\ access_token = issued

(* C24 as stated: a token exchange that ends with an exception leaves the  *)
(* bearer token, the acquisition time and the refresh token as they were.   *)
C24_FailedExchangeFrame ==
    [][ (Obs.pc \in {"ens", "frc"} /\ Obs'.pc = "done") =>
            UNCHANGED clientVars ]_vars

(* C25: when the forced exchange after a 401 fails, the request is not     *)
(* issued again and the call raises what the exchange raised: Auth on 400   *)
(* and 401 and on a 200 answer without access_token, the connection error   *)
(* on a transport fault, the base API error otherwise. When it succeeds,    *)
(* the retried request carries the bearer token of that exchange, which is  *)
(* not the rejected one.                                                    *)
C25_ForcedRefresh ==
    /\ Obs.forced = "failed" =>
            /\ Obs.pc = "done" /\ Obs.via = "exchange" /\ Obs.nReq = 1
            /\ Obs.result =
                    (IF Obs.xanswer.status = Fault THEN ConnError
                     ELSE IF Obs.xanswer.status \in {200, 400, 401} THEN AuthError
                     ELSE ApiError)
    /\ Obs.pc = "rty" =>
            /\ Obs.forced = "ok"
            /\ Obs.bearer = Obs.xanswer.at
            /\ Obs.bearer # 0 /\ Obs.bearer # Obs.rejected

C25_Witness ==
    /\ Obs.pc = "rty" /\ Obs.forced = "ok"
    /\ Obs.rejected # 0
    /\ Obs.bearer = access_token /\ Obs.bearer # Obs.rejected

(* C26 as stated: _token_is_expired is true exactly when no bearer token   *)
(* is held or more than the lifetime less 120 s have passed since it was    *)
(* acquired.                                                                *)
C26_AsStated ==
    token_is_expired <=>
        \/ access_token = 0
        \/ now - token_acquired_at > TOKEN_LIFETIME_SECONDS - ExpiryBuffer

(* C26 amended: _token_is_expired is true exactly when no bearer token is  *)
(* held or at least the lifetime less 120 s have passed since it was        *)
(* acquired: false up to 2879 s, true from exactly 2880 s.                  *)
C26_ExpiryBoundary ==
    /\ token_is_expired <=>
            \/ access_token = 0
            \/ now - token_acquired_at >= TOKEN_LIFETIME_SECONDS - ExpiryBuffer
    /\ (access_token # 0 /\ now - token_acquired_at = 2880) => token_is_expired
    /\ (access_token # 0 /\ now - token_acquired_at \in 0..2879) => ~token_is_expired

C26_Witness ==
    /\ access_token # 0
    /\ now - token_acquired_at = 2880
    /\ token_is_expired

(* C27: a call that starts with a bearer token that is held and not        *)
(* expired issues its request at once with that token, and when the         *)
(* response to it is not 401 the call ends without a token exchange and     *)
(* with the bearer token, the acquisition time and the refresh token as     *)
(* they were; so does every later call within the lifetime.                 *)
C27_NoExchangeWhenValid ==
    [][ /\ (Obs.pc = "idle" /\ Obs'.pc # "idle" /\ access_token # 0 /\ ~token_is_expired) =>
                /\ Obs'.pc = "req" /\ Obs'.nExch = 0
                /\ Obs'.bearer = access_token
                /\ UNCHANGED clientVars
        /\ (Obs.pc = "req" /\ Obs.nExch = 0 /\ Obs'.pc # "req" /\ Obs'.status # 401) =>
                /\ Obs'.pc = "done" /\ Obs'.nExch = 0
                /\ UNCHANGED clientVars ]_vars

C27_Witness ==
    /\ Obs.pc = "done" /\ Obs.nExch = 0 /\ Obs.status = 200
    /\ issued = MaxIssued /\ access_token = MaxIssued
    /\ ticks > 0 /\ ~token_is_expired

(* C30 as stated: whatever the shape of the payloads, the cycle ends with  *)
(* a snapshot or with ConfigEntryAuthFailed.                                *)
C30_NormalizationTotal ==
    CycleEnded => outcome \in {"snapshot", "reauth"}

(* C28: in a cycle that is not escalated, the remaining-days calls are     *)
(* issued one after the other, the first when the gather has returned and   *)
(* every next one when the one before has returned or raised; the k-th is   *)
(* the call for the k-th integer of the taken-slot numbers, and the         *)
(* snapshot is returned when there has been one call for each of them       *)
(* (none when there is none).                                               *)
TakenInts == SelectSeq(GivenSlots, isInt)

C28_OneCallPerSlot ==
    [][ /\ (call[Slot].pc \in {"idle", "done"} /\ call'[Slot].pc \notin {"idle", "done"}) =>
            /\ call[Slot].pc = "done" \/ fan = 0
            /\ fan' = fan + 1
            /\ fan' <= Len(TakenInts)
            /\ call'[Slot].arg = TakenInts[fan']
        /\ (outcome = "running" /\ outcome' = "snapshot") =>
            /\ fan = Len(TakenInts)
            /\ call[Slot].pc \in {"idle", "done"} ]_vars

C28_Witness ==
    /\ CycleEnded /\ outcome = "snapshot"
    /\ GivenSlots = <<JInt(5), JInt(2)>>
    /\ MapKeys(Field("remaining_days")) = {JInt(2), JInt(5)}

(* C29: the dose list of the snapshot has one dose for every dose record   *)
(* that is a mapping, under every time entry that is a mapping, of every    *)
(* date entry that is a mapping, in the order of the payload, and every     *)
(* one has the "scheduled_datetime" of its time entry (None when the time   *)
(* entry has none).                                                         *)
GivenDates == Items(DictGet(call[1].result, "dates", EmptyList))

TimesOf(d) == Items(DictGet(GivenDates[d], "times", EmptyList))

DosesOf(d, t) == Items(DictGet(TimesOf(d)[t], "doses", EmptyList))

DosePlaces ==
    UNION {UNION {{<<d, t, k>> : k \in {k \in 1..Len(DosesOf(d, t)) : isDict(DosesOf(d, t)[k])}} :
                    t \in {t \in 1..Len(TimesOf(d)) : isDict(TimesOf(d)[t])}} :
            d \in {d \in 1..Len(GivenDates) : isDict(GivenDates[d])}}

PlaceBefore(u, v) ==
    \/ u[1] < v[1]
    \/ u[1] = v[1] /\ u[2] < v[2]
    \/ u[1] = v[1] /\ u[2] = v[2] /\ u[3] < v[3]

PlaceRank(v) == 1 + Cardinality({u \in DosePlaces : PlaceBefore(u, v)})

C29_DoseFlattening ==
    (CycleEnded /\ outcome = "snapshot" /\ isDict(call[1].result)) =>
        LET doses == Field("doses").v
        IN  /\ Len(doses) = Cardinality(DosePlaces)
            /\ \A v \in DosePlaces :
                LET flat == doses[PlaceRank(v)]
                    rec == DosesOf(v[1], v[2])[v[3]]
                    at == DictGet(TimesOf(v[1])[v[2]], "scheduled_datetime", JNull)
                IN  /\ DictGet(flat, "pill", NoResult) = DictGet(rec, "pill", NoResult)
                    /\ DictGet(flat, "status", NoResult) = DictGet(rec, "status", NoResult)
                    /\ DictGet(flat, "scheduled_datetime", NoResult) = at

C29_Witness ==
    /\ CycleEnded /\ outcome = "snapshot"
    /\ call[1].result = MixedDoses
    /\ LET doses == Field("doses").v
       IN  /\ Len(doses) = 3
           /\ DictGet(doses[2], "pill", NoResult) = JStr("B")
           /\ DictGet(doses[2], "scheduled_datetime", NoResult) = JStr("08:00")
           /\ DictGet(doses[3], "pill", NoResult) = JStr("C")
           /\ DictGet(doses[3], "scheduled_datetime", NoResult) = JStr("20:00")

(* C31 as stated: every key the sensors read is a key of the snapshot, and *)
(* from the snapshot of a cycle whose calls all succeeded the sensors read  *)
(* its doses, events, taken slots, remaining days and device config.        *)
C31_ReadersSeeData ==
    (CycleEnded /\ outcome = "snapshot" /\ \A i \in Batch : ~Failed(i)) =>
        /\ ReaderKeys \subseteq SnapshotKeys(data)
        /\ read_doses(data) = Field("doses")
        /\ read_events(data) = Field("events")
        /\ read_taken_slots(data) = Field("taken_slots")
        /\ read_remaining(data) = Field("remaining_days")
        /\ read_device_config(data) = Field("device_config")
        /\ read_stats(data) # EmptyDict
        /\ is_on(data) # JNull

(* C32: a cycle that has started ends, and the work of every call is       *)
(* bounded: a call issues at most two requests and at most two token        *)
(* exchanges, because it moves forward only, through at most one exchange of *)
(* _ensure_token, one request, one forced exchange and one retried          *)
(* request, and a new remaining-days call starts only for the next taken    *)
(* slot, of which there are as many as the normalization produced.          *)
PcRank(pc) ==
    CASE pc = "idle" -> 0
      [] pc = "start" -> 1
      [] pc = "ens" -> 2
      [] pc = "req" -> 3
      [] pc = "frc" -> 4
      [] pc = "rty" -> 5
      [] pc = "done" -> 6

C32_BoundedWork ==
    /\ (outcome = "running") ~> CycleEnded
    /\ [](\A i \in Calls : call[i].nReq <= 2 /\ call[i].nExch <= 2)
    /\ [](cyc = "fanout" => fan \in 1..Len(TakenSlots(Results).v))
    /\ [][ \A i \in Calls :
            call'[i].pc # call[i].pc =>
                \/ PcRank(call'[i].pc) > PcRank(call[i].pc)
                \/ i \in Batch /\ cyc = "idle" /\ cyc' = "gather"
                \/ i = Slot /\ call[i].pc = "done" /\ call'[i].pc = "idle"
                \/ /\ i = Slot /\ call[i].pc = "done" /\ fan' = fan + 1
                   /\ call'[i].pc \in {"ens", "req"} ]_vars

C32_Witness ==
    /\ cyc = "fanout" /\ fan = 2
    /\ Obs.pc = "rty" /\ Obs.nReq = 2 /\ Obs.nExch >= 1

====
